---- MODULE Spec2Model ----
(***************************************************************************)
(* Model of the 2-of-3 secret sharing engine of private-key-split:         *)
(* GF256 (src/src/gf256.js), KeySharing (src/src/keySharing.ts) and the    *)
(* callers that hand shares to it.                                         *)
(*                                                                         *)
(* Bytes are the integers 0..255.  A Uint8Array is a sequence of bytes,    *)
(* indexed from 1 (JavaScript index k is index k+1 here); the one-element  *)
(* Uint8Array that GF256 wraps every result in is its element.             *)
(***************************************************************************)
EXTENDS Integers, Sequences, FiniteSets

\* ------------------------------------------------------------------ bounds

\* Longest secret split, and longest length argument given to
\* generateCompatibleShare.
MaxLen == 2

\* ------------------------------------------------------- program constants

FIELD_SIZE == 256
PRIMITIVE_POLY == 285
NumShares == 3
ShareVersion == 1
DigestBytes == 32
ByteBits == 8

Byte == 0 .. (FIELD_SIZE - 1)

\* ------------------------------------------------------ integer operators

\* JavaScript a ^ b on non-negative integers.
RECURSIVE Xor(_, _)
Xor(a, b) ==
    IF a = 0 THEN b
    ELSE IF b = 0 THEN a
    ELSE ((a + b) % 2) + 2 * Xor(a \div 2, b \div 2)

\* 1 << i
RECURSIVE ShiftOne(_)
ShiftOne(i) == IF i = 0 THEN 1 ELSE 2 * ShiftOne(i - 1)

\* (a & (1 << i)) !== 0
BitSet(a, i) == (a \div ShiftOne(i)) % 2 = 1

\* Storing a number into a Uint8Array element keeps its low 8 bits.
ToUint8(n) == n % FIELD_SIZE

\* ------------------------------------------------------------------ GF256

\* The loop of multiplyWithoutTables from iteration i on, with the loop's
\* result and temp.
RECURSIVE MultiplyLoop(_, _, _, _)
MultiplyLoop(a, i, result, temp) ==
    IF i = ByteBits THEN result
    ELSE LET r1 == IF BitSet(a, i) THEN Xor(result, temp) ELSE result
             highBitSet == BitSet(temp, 7)
             t1 == (temp * 2) % 256
             t2 == IF highBitSet THEN Xor(t1, PRIMITIVE_POLY % 256) ELSE t1
         IN  MultiplyLoop(a, i + 1, r1, t2)

multiplyWithoutTables(a, b) == MultiplyLoop(a, 0, 0, b)

\* initLogTable and initExpTable run the same loop: at iteration i, x is the
\* i-th power of 2; the body stores into the table and doubles x.  The
\* iterations lo .. hi-1 are run in two halves to keep the evaluation shallow.
LogStep(i, st) ==
    [x |-> multiplyWithoutTables(st.x, 2), table |-> [st.table EXCEPT ![st.x] = i]]

RECURSIVE InitLogLoop(_, _, _)
InitLogLoop(lo, hi, st) ==
    IF lo >= hi \/ st.x \notin Byte THEN st
    ELSE IF hi = lo + 1 THEN LogStep(lo, st)
    ELSE LET mid == (lo + hi) \div 2
         IN  InitLogLoop(mid, hi, InitLogLoop(lo, mid, st))

initLogTable == InitLogLoop(0, 255, [x |-> 1, table |-> [v \in Byte |-> 0]]).table

ExpStep(i, st) ==
    [x |-> multiplyWithoutTables(st.x, 2), table |-> [st.table EXCEPT ![i] = st.x]]

RECURSIVE InitExpLoop(_, _, _)
InitExpLoop(lo, hi, st) ==
    IF lo >= hi \/ st.x \notin Byte THEN st
    ELSE IF hi = lo + 1 THEN ExpStep(lo, st)
    ELSE LET mid == (lo + hi) \div 2
         IN  InitExpLoop(mid, hi, InitExpLoop(lo, mid, st))

initExpTable ==
    LET table == InitExpLoop(0, 255, [x |-> 1, table |-> [v \in Byte |-> 0]]).table
    IN  [table EXCEPT ![255] = table[0]]

LOG_TABLE == initLogTable
EXP_TABLE == initExpTable

\* multiply with the logarithms added modulo the field size.
multiplyModFieldSize(a, b) ==
    IF a = 0 \/ b = 0 THEN 0
    ELSE EXP_TABLE[(LOG_TABLE[a] + LOG_TABLE[b]) % FIELD_SIZE]

multiply(a, b) ==
    IF a = 0 \/ b = 0 THEN 0
    ELSE EXP_TABLE[(LOG_TABLE[a] + LOG_TABLE[b]) % 255]

add(a, b) == ToUint8(Xor(a, b))

subtract(a, b) == add(a, b)

pow(base, exp) ==
    IF base = 0 THEN 0
    ELSE IF exp = 0 THEN 1
    ELSE EXP_TABLE[(LOG_TABLE[base] * exp) % 255]

\* inverse(a) throws "Division by zero" exactly when a is 0 ...
inverseThrows(a) == a = 0

\* inverse with the logarithm not negated.
inverseUnnegated(a) ==
    IF a = 1 THEN 1
    ELSE EXP_TABLE[LOG_TABLE[a] % 255]

\* inverse with the logarithm taken from the field size.
inverseOffByOne(a) ==
    IF a = 1 THEN 1
    ELSE EXP_TABLE[(FIELD_SIZE - LOG_TABLE[a]) % 255]

\* ... and otherwise returns this byte.
inverse(a) ==
    IF a = 1 THEN 1
    ELSE EXP_TABLE[(255 - LOG_TABLE[a]) % 255]

\* ------------------------------------------------------------ Share model

shareTypes == <<"deviceShare", "serverShare", "recoveryShare">>

\* The UTF-8 bytes of a type string, as hash.update(share.type) feeds them to
\* the digest.  The last three strings are the three identities with the low
\* bit of their first character changed.
Utf8(type) ==
    CASE type = "deviceShare"   -> <<100, 101, 118, 105, 99, 101, 83, 104, 97, 114, 101>>
      [] type = "serverShare"   -> <<115, 101, 114, 118, 101, 114, 83, 104, 97, 114, 101>>
      [] type = "recoveryShare" -> <<114, 101, 99, 111, 118, 101, 114, 121, 83, 104, 97, 114, 101>>
      [] type = "eeviceShare"   -> <<101, 101, 118, 105, 99, 101, 83, 104, 97, 114, 101>>
      [] type = "rerverShare"   -> <<114, 101, 114, 118, 101, 114, 83, 104, 97, 114, 101>>
      [] type = "secoveryShare" -> <<115, 101, 99, 111, 118, 101, 114, 121, 83, 104, 97, 114, 101>>
      [] OTHER                  -> <<>>

\* A hex string that spells digest bytes: the first hexBytes bytes of the
\* SHA-256 digest of the message digestOf, in lower or upper case.  SHA-256 is
\* taken to be collision free, so a digest is named by its message.  The empty
\* string is the value with hexBytes = 0.
HexString(message, n, upper) == [digestOf |-> message, hexBytes |-> n, upperCase |-> upper]

EmptyString == HexString(<<>>, 0, FALSE)

\* hash.digest("hex"): all DigestBytes bytes, lower case.
DigestHex(message) == HexString(message, DigestBytes, FALSE)

\* Buffer.from(text, "hex") reads either case and yields the bytes spelled.
BufferFromHex(text) == [digestOf |-> text.digestOf, byteLength |-> text.hexBytes]

\* crypto.timingSafeEqual(a, b) throws a RangeError when the byte lengths
\* differ ...
timingSafeEqualThrows(a, b) == a.byteLength # b.byteLength

\* ... and otherwise compares the bytes.
timingSafeEqual(a, b) == a = b

\* calculateShareHash with the version fed to the digest as well.
calculateShareHashWithVersion(share) ==
    DigestHex(<<ToUint8(share.x)>> \o share.y \o Utf8(share.type)
                 \o <<ToUint8(share.version)>>)

calculateShareHash(share) ==
    DigestHex(<<ToUint8(share.x)>> \o share.y \o Utf8(share.type))

\* The absent share (undefined).
NoShare == [type |-> "", x |-> 0, y |-> <<>>, version |-> 0, hash |-> EmptyString]

\* A Uint8Array read past its end is undefined, which a Uint8Array stores as 0.
ByteAt(y, k) == IF k <= Len(y) THEN y[k] ELSE 0

\* ------------------------------------------------------------- outcomes

ErrNeedShares == "Need at least 2 shares to reconstruct"
ErrNeedExisting == "Need at least 2 existing shares to generate compatible share"
ErrTampered == "Invalid or tampered shares detected"
ErrVersions == "Incompatible share versions"
ErrDivision == "Division by zero"
ErrRange == "Input buffers must have the same byte length"
ErrAmbiguousTarget == "Could not determine missing share type"

\* What a call returned or threw: bytes (reconstruct), share
\* (generateCompatibleShare), shares (split) or valid (verifyShare), or the
\* message of the error thrown.
NoOutcome ==
    [threw |-> FALSE, error |-> "", bytes |-> <<>>, share |-> NoShare,
     shares |-> <<>>, valid |-> FALSE]

ReturnedBytes(v) == [NoOutcome EXCEPT !.bytes = v]
ReturnedShare(v) == [NoOutcome EXCEPT !.share = v]
ReturnedShares(v) == [NoOutcome EXCEPT !.shares = v]
ReturnedBoolean(v) == [NoOutcome EXCEPT !.valid = v]
Thrown(e) == [NoOutcome EXCEPT !.threw = TRUE, !.error = e]

\* ------------------------------------------------------------ KeySharing

\* The inner loop of split: the polynomial with the given coefficients
\* evaluated at i, from term j on.
RECURSIVE EvaluationLoop(_, _, _, _)
EvaluationLoop(coefficients, i, j, evaluation) ==
    IF j >= Len(coefficients) THEN evaluation
    ELSE EvaluationLoop(coefficients, i, j + 1,
                        add(evaluation, multiply(coefficients[j + 1], pow(i, j))))

\* split with each hash computed when the share is created, before its y is
\* filled in.
splitHashFirst(key, randomBytes) ==
    IF Len(key) = 0 THEN <<>>
    ELSE [i \in 1 .. NumShares |->
            LET share == [type |-> shareTypes[i],
                          x |-> i,
                          y |-> [byteIndex \in 1 .. Len(key) |-> 0],
                          version |-> ShareVersion,
                          hash |-> EmptyString]
            IN  [share EXCEPT
                   !.hash = calculateShareHash(share),
                   !.y = [byteIndex \in 1 .. Len(key) |->
                            EvaluationLoop(<<key[byteIndex], randomBytes[byteIndex]>>,
                                           i, 0, 0)]]]

\* split, given the bytes getSecureRandomByte returns, one per byte of the key.
\* The shares are created inside the loop over the key's bytes: an empty key
\* leaves the array empty.
split(key, randomBytes) ==
    IF Len(key) = 0 THEN <<>>
    ELSE [i \in 1 .. NumShares |->
            LET share == [type |-> shareTypes[i],
                          x |-> i,
                          y |-> [byteIndex \in 1 .. Len(key) |->
                                   EvaluationLoop(<<key[byteIndex], randomBytes[byteIndex]>>,
                                                  i, 0, 0)],
                          version |-> ShareVersion,
                          hash |-> EmptyString]
            IN  [share EXCEPT !.hash = calculateShareHash(share)]]

verifyShareThrows(share) ==
    /\ share.hash.hexBytes # 0
    /\ timingSafeEqualThrows(BufferFromHex(calculateShareHash(share)),
                             BufferFromHex(share.hash))

verifyShare(share) ==
    IF share.hash.hexBytes = 0 THEN FALSE
    ELSE timingSafeEqual(BufferFromHex(calculateShareHash(share)),
                         BufferFromHex(share.hash))

\* The loop over j of the interpolation at the coordinate at: the Lagrange
\* factor of share i, multiplied into term.
RECURSIVE FactorLoop(_, _, _, _, _)
FactorLoop(list, at, i, j, term) ==
    IF j > Len(list) THEN term
    ELSE IF i = j THEN FactorLoop(list, at, i, j + 1, term)
    ELSE LET numerator == subtract(at, list[j].x)
             denominator == subtract(list[i].x, list[j].x)
             factor == multiply(numerator, inverse(denominator))
         IN  FactorLoop(list, at, i, j + 1, multiply(term, factor))

\* The loop over i: the sum of the shares' terms at one byte index.
RECURSIVE TermLoop(_, _, _, _, _)
TermLoop(list, at, byteIndex, i, result) ==
    IF i > Len(list) THEN result
    ELSE TermLoop(list, at, byteIndex, i + 1,
                  add(result, FactorLoop(list, at, i, 1, ByteAt(list[i].y, byteIndex))))

\* Some denominator of the interpolation is 0, so that inverse throws.
InterpolationThrows(list) ==
    \E i, j \in 1 .. Len(list) :
        i # j /\ inverseThrows(subtract(list[i].x, list[j].x))

\* The version of the first share only.
versionsOfFirst(list) == {list[i].version : i \in {1} \cap DOMAIN list}

versionsOf(list) == {list[i].version : i \in 1 .. Len(list)}

reconstruct(list) ==
    IF Len(list) < 2 THEN Thrown(ErrNeedShares)
    ELSE IF \E i \in 1 .. Len(list) : verifyShareThrows(list[i]) THEN Thrown(ErrRange)
    ELSE IF \E i \in 1 .. Len(list) : ~verifyShare(list[i]) THEN Thrown(ErrTampered)
    ELSE IF Cardinality(versionsOf(list)) > 1 THEN Thrown(ErrVersions)
    ELSE LET secretLength == Len(list[1].y)
         IN  IF secretLength > 0 /\ InterpolationThrows(list) THEN Thrown(ErrDivision)
             ELSE ReturnedBytes([byteIndex \in 1 .. secretLength |->
                                   TermLoop(list, 0, byteIndex, 1, 0)])

\* The coordinates of server and recovery exchanged.
coordinateOfSwapped(shareType) ==
    IF shareType = "deviceShare" THEN 1 ELSE IF shareType = "serverShare" THEN 3 ELSE 2

coordinateOf(shareType) ==
    IF shareType = "deviceShare" THEN 1 ELSE IF shareType = "serverShare" THEN 2 ELSE 3

generateCompatibleShare(key, existingShares, shareType) ==
    IF Len(existingShares) < 2 THEN Thrown(ErrNeedExisting)
    ELSE IF \E i \in 1 .. Len(existingShares) : verifyShareThrows(existingShares[i])
         THEN Thrown(ErrRange)
    ELSE IF \E i \in 1 .. Len(existingShares) : ~verifyShare(existingShares[i])
         THEN Thrown(ErrTampered)
    ELSE IF Cardinality(versionsOf(existingShares)) > 1 THEN Thrown(ErrVersions)
    ELSE IF Len(key) > 0 /\ InterpolationThrows(existingShares) THEN Thrown(ErrDivision)
    ELSE LET at == coordinateOf(shareType)
             newShare == [type |-> shareType,
                          x |-> at,
                          y |-> [byteIndex \in 1 .. Len(key) |->
                                   TermLoop(existingShares, at, byteIndex, 1, 0)],
                          version |-> existingShares[1].version,
                          hash |-> EmptyString]
         IN  ReturnedShare([newShare EXCEPT !.hash = calculateShareHash(newShare)])

\* ------------------------------------------------------------ KeyManager

\* A JavaScript string is the sequence of its code points (none above 0xFFFF,
\* none a surrogate).  new TextEncoder().encode(text): the UTF-8 bytes, one,
\* two or three per code point.
Utf8OfCodePoint(c) ==
    IF c < 128 THEN <<c>>
    ELSE IF c < 2048 THEN <<192 + (c \div 64), 128 + (c % 64)>>
    ELSE <<224 + (c \div 4096), 128 + ((c \div 64) % 64), 128 + (c % 64)>>

RECURSIVE TextEncode(_)
TextEncode(text) ==
    IF text = <<>> THEN <<>>
    ELSE Utf8OfCodePoint(Head(text)) \o TextEncode(Tail(text))

HexDigits == <<"0", "1", "2", "3", "4", "5", "6", "7",
               "8", "9", "a", "b", "c", "d", "e", "f">>

\* Buffer.from(bytes).toString("hex"): two lower-case digits per byte.
ToHex(bytes) ==
    [k \in 1 .. 2 * Len(bytes) |->
        IF k % 2 = 1 THEN HexDigits[(bytes[(k + 1) \div 2] \div 16) + 1]
        ELSE HexDigits[(bytes[k \div 2] % 16) + 1]]

ErrKeyRequired == "Private key is required"
ErrTotalShares == "Total shares must be greater than or equal to threshold"
ErrThreshold == "Threshold must be at least 2"

\* `Failed to split key: ${message}`
FailedToSplitKey(message) ==
    CASE message = ErrKeyRequired -> "Failed to split key: Private key is required"
      [] message = ErrTotalShares ->
            "Failed to split key: Total shares must be greater than or equal to threshold"
      [] message = ErrThreshold -> "Failed to split key: Threshold must be at least 2"
      [] OTHER -> "Failed to split key: "

\* splitKey without the check of threshold against 2.
splitKeyAnyThreshold(text, totalShares, threshold, randomBytes) ==
    IF text = <<>> THEN Thrown(FailedToSplitKey(ErrKeyRequired))
    ELSE IF totalShares < threshold THEN Thrown(FailedToSplitKey(ErrTotalShares))
    ELSE LET made == split(TextEncode(text), randomBytes)
         IN  ReturnedShares([i \in DOMAIN made |-> [made[i] EXCEPT !.y = ToHex(@)]])

\* splitKey, given the bytes getSecureRandomByte returns.  Neither totalShares
\* nor threshold is passed on to split.
splitKey(text, totalShares, threshold, randomBytes) ==
    IF text = <<>> THEN Thrown(FailedToSplitKey(ErrKeyRequired))
    ELSE IF totalShares < threshold THEN Thrown(FailedToSplitKey(ErrTotalShares))
    ELSE IF threshold < 2 THEN Thrown(FailedToSplitKey(ErrThreshold))
    ELSE LET made == split(TextEncode(text), randomBytes)
         IN  ReturnedShares([i \in DOMAIN made |-> [made[i] EXCEPT !.y = ToHex(@)]])

\* ------------------------------------------------------------------ state

VARIABLES
    privateKey,   \* the secret handed to split
    randomBytes,  \* what getSecureRandomByte returned, one byte per key byte
    shares,       \* the array split returned
    kept,         \* a derived share the caller kept, or NoShare
    call,         \* the call in progress: operation and arguments
    outcome,      \* what the call returned or threw
    pc            \* "start", then "idle" between calls and "returned" after one

vars == <<privateKey, randomBytes, shares, kept, call, outcome, pc>>

NoCall ==
    [op |-> "none", shares |-> <<>>, shareType |-> "", key |-> <<>>,
     totalShares |-> 0, threshold |-> 0, operands |-> <<>>]

\* ------------------------------------------------------------------ inputs

\* Samples of the secret's bytes and of the random source's bytes.
SecretBytes == {0, 65}
RandomBytes == {0, 1, 83, 200}

Range(seq) == {seq[i] : i \in 1 .. Len(seq)}

SeqsUpTo(S, n) == UNION {[1 .. m -> S] : m \in 0 .. n}

Secrets == SeqsUpTo(SecretBytes, MaxLen)

\* The key padded with 0 or cut to n bytes.
Resize(key, n) == [k \in 1 .. n |-> ByteAt(key, k)]

\* The shares a caller holds: the split's, and the derived share if kept.
Pool == shares \o (IF kept = NoShare THEN <<>> ELSE <<kept>>)

\* Lists of up to NumShares shares a caller holds, in any order, repeats allowed.
HeldLists == SeqsUpTo(Range(Pool), NumShares)

KeyArguments == {Resize(privateKey, n) : n \in 0 .. MaxLen}

\* ---------------------------------------------------------------- altering

FlipBit(n, b) == Xor(n, ShiftOne(b))

\* The identity string with one bit of its first character changed.
FlippedType(type) ==
    CASE type = "deviceShare"   -> "eeviceShare"
      [] type = "serverShare"   -> "rerverShare"
      [] type = "recoveryShare" -> "secoveryShare"
      [] OTHER                  -> "deviceShare"

\* One bit of one byte of y changed, the rest (the stored hash too) as it was.
AlteredY(share) ==
    {[share EXCEPT !.y[k] = FlipBit(@, b)] : k \in 1 .. Len(share.y), b \in 0 .. (ByteBits - 1)}

\* One bit of the coordinate byte changed.
AlteredX(share) ==
    {[share EXCEPT !.x = FlipBit(@, b)] : b \in 0 .. (ByteBits - 1)}

\* Another identity, or the identity string with one bit changed.
AlteredType(share) ==
    {[share EXCEPT !.type = t] :
        t \in (Range(shareTypes) \cup {FlippedType(share.type)}) \ {share.type}}

\* Another version number.
AlteredVersion(share) == {[share EXCEPT !.version = @ + 1]}

\* The stored hash removed, cut short by a byte, upper-cased, or replaced by
\* the digest of another message.
AlteredHash(share) ==
    {[share EXCEPT !.hash = h] :
        h \in {EmptyString,
               HexString(share.hash.digestOf, share.hash.hexBytes - 1, FALSE),
               HexString(share.hash.digestOf, share.hash.hexBytes, TRUE),
               DigestHex(<<>>)} \ {share.hash}}

\* A payload bit and the version changed together.
AlteredTwice(share) ==
    UNION {AlteredVersion(t) : t \in {[share EXCEPT !.y[k] = FlipBit(@, 0)] : k \in {1} \cap DOMAIN share.y}}

Alterations(share) ==
    AlteredY(share) \cup AlteredX(share) \cup AlteredType(share)
        \cup AlteredVersion(share) \cup AlteredHash(share) \cup AlteredTwice(share)

\* A few of the alterations that leave the stored hash stale.
TamperSamples(share) ==
    {[share EXCEPT !.y[k] = FlipBit(@, 0)] : k \in {1} \cap DOMAIN share.y}
        \cup {[share EXCEPT !.x = FlipBit(@, 0)], [share EXCEPT !.type = FlippedType(@)]}

\* One share of the list altered.
OneAltered(list) ==
    UNION {{[list EXCEPT ![p] = t] : t \in Alterations(list[p])} : p \in DOMAIN list}

\* One share tampered with and another's stored hash or version altered.
TwoAlteredAt(list, p, q) ==
    {[list EXCEPT ![p] = t, ![q] = u] :
        t \in TamperSamples(list[p]),
        u \in AlteredHash(list[q]) \cup AlteredVersion(list[q])}

TwoAltered(list) ==
    UNION {TwoAlteredAt(list, pq[1], pq[2]) :
             pq \in {qq \in (DOMAIN list) \X (DOMAIN list) : qq[1] # qq[2]}}

\* The version of every share changed to the same other number.
AllReversioned(list) == {[p \in DOMAIN list |-> [list[p] EXCEPT !.version = @ + 1]]}

\* The held lists as they may come back from storage or transport.
TamperedLists ==
    UNION {{list} \cup OneAltered(list) \cup TwoAltered(list) \cup AllReversioned(list)
           : list \in HeldLists}

TamperSecretBytes == {65}
TamperRandomBytes == {200}
TamperSecrets == SeqsUpTo(TamperSecretBytes, MaxLen)

\* Code points of the key strings given to KeyManager.splitKey (one, two and
\* three UTF-8 bytes), the values of its totalShares and threshold, and the
\* random source's bytes there.
CodePoints == {65, 233, 8364}
KeyStrings == SeqsUpTo(CodePoints, MaxLen)
ShareCounts == {0, 1, 2, 3, 5}
ManagerRandomBytes == {1, 200}

\* The exponents given to GF256.pow.
Exponents == 0 .. FIELD_SIZE

\* ----------------------------------------------------------------- actions

Split(source) ==
    /\ pc = "start"
    /\ \E drawn \in [1 .. Len(privateKey) -> source] :
          /\ randomBytes' = drawn
          /\ shares' = split(privateKey, drawn)
          /\ outcome' = ReturnedShares(split(privateKey, drawn))
    /\ call' = [NoCall EXCEPT !.op = "split", !.key = privateKey]
    /\ pc' = "returned"
    /\ UNCHANGED <<privateKey, kept>>

Reconstruct(lists) ==
    /\ pc = "idle"
    /\ \E list \in lists :
          /\ call' = [NoCall EXCEPT !.op = "reconstruct", !.shares = list]
          /\ outcome' = reconstruct(list)
    /\ pc' = "returned"
    /\ UNCHANGED <<privateKey, randomBytes, shares, kept>>

GenerateCompatibleShare(lists, keys) ==
    /\ pc = "idle"
    /\ \E list \in lists, key \in keys, shareType \in Range(shareTypes) :
          /\ call' = [NoCall EXCEPT !.op = "generateCompatibleShare", !.shares = list,
                                    !.shareType = shareType, !.key = key]
          /\ outcome' = generateCompatibleShare(key, list, shareType)
    /\ pc' = "returned"
    /\ UNCHANGED <<privateKey, randomBytes, shares, kept>>

VerifyShare(candidates) ==
    /\ pc = "idle"
    /\ \E share \in candidates :
          /\ call' = [NoCall EXCEPT !.op = "verifyShare", !.shares = <<share>>]
          /\ outcome' = IF verifyShareThrows(share) THEN Thrown(ErrRange)
                        ELSE ReturnedBoolean(verifyShare(share))
    /\ pc' = "returned"
    /\ UNCHANGED <<privateKey, randomBytes, shares, kept>>

\* KeyManager.splitKey called with the key string privateKey.
SplitKey ==
    /\ pc = "start"
    /\ \E totalShares \in ShareCounts, threshold \in ShareCounts,
          drawn \in [1 .. Len(TextEncode(privateKey)) -> ManagerRandomBytes] :
          LET result == splitKey(privateKey, totalShares, threshold, drawn)
          IN  /\ randomBytes' = IF result.threw THEN <<>> ELSE drawn
              /\ shares' = result.shares
              /\ outcome' = result
              /\ call' = [NoCall EXCEPT !.op = "splitKey", !.key = privateKey,
                                        !.totalShares = totalShares,
                                        !.threshold = threshold]
    /\ pc' = "returned"
    /\ UNCHANGED <<privateKey, kept>>

\* GF256.multiply, GF256.inverse and GF256.pow called on their own.
Multiply ==
    /\ pc = "start"
    /\ \E a \in Byte, b \in Byte :
          /\ call' = [NoCall EXCEPT !.op = "multiply", !.operands = <<a, b>>]
          /\ outcome' = ReturnedBytes(<<multiply(a, b)>>)
    /\ pc' = "returned"
    /\ UNCHANGED <<privateKey, randomBytes, shares, kept>>

Inverse ==
    /\ pc = "start"
    /\ \E a \in Byte :
          /\ call' = [NoCall EXCEPT !.op = "inverse", !.operands = <<a>>]
          /\ outcome' = IF inverseThrows(a) THEN Thrown(ErrDivision)
                        ELSE ReturnedBytes(<<inverse(a)>>)
    /\ pc' = "returned"
    /\ UNCHANGED <<privateKey, randomBytes, shares, kept>>

Pow ==
    /\ pc = "start"
    /\ \E base \in Byte, exp \in Exponents :
          /\ call' = [NoCall EXCEPT !.op = "pow", !.operands = <<base, exp>>]
          /\ outcome' = ReturnedBytes(<<pow(base, exp)>>)
    /\ pc' = "returned"
    /\ UNCHANGED <<privateKey, randomBytes, shares, kept>>

\* The caller takes the result and is ready for the next call.
Return ==
    /\ pc = "returned"
    /\ pc' = "idle"
    /\ call' = NoCall
    /\ outcome' = NoOutcome
    /\ UNCHANGED <<privateKey, randomBytes, shares, kept>>

\* The caller keeps the share generateCompatibleShare returned
\* (example.ts: const newShare = ...).
Keep ==
    /\ pc = "returned"
    /\ call.op = "generateCompatibleShare"
    /\ ~outcome.threw
    /\ kept' = outcome.share
    /\ pc' = "idle"
    /\ call' = NoCall
    /\ outcome' = NoOutcome
    /\ UNCHANGED <<privateKey, randomBytes, shares>>

\* ----------------------------------------------------------- specification

InitWith(secrets) ==
    /\ privateKey \in secrets
    /\ randomBytes = <<>>
    /\ shares = <<>>
    /\ kept = NoShare
    /\ call = NoCall
    /\ outcome = NoOutcome
    /\ pc = "start"

\* One share is derived and kept per split.
DerivableLists(lists) == IF kept = NoShare THEN lists ELSE {}

\* Callers hand over shares exactly as split and generateCompatibleShare
\* returned them.
Init == InitWith(Secrets)

Next ==
    \/ Split(RandomBytes)
    \/ Reconstruct(HeldLists)
    \/ GenerateCompatibleShare(DerivableLists(HeldLists), KeyArguments)
    \/ VerifyShare(Range(Pool))
    \/ Keep
    \/ Return

Spec == Init /\ [][Next]_vars

\* Shares come back from storage or transport altered.
InitTamper == InitWith(TamperSecrets)

NextTamper ==
    \/ Split(TamperRandomBytes)
    \/ Reconstruct(TamperedLists)
    \/ GenerateCompatibleShare(DerivableLists(TamperedLists), {privateKey})
    \/ VerifyShare(UNION {Alterations(share) \cup {share} : share \in Range(Pool)})
    \/ Keep
    \/ Return

SpecTamper == InitTamper /\ [][NextTamper]_vars

\* Every one-byte secret, shares handed over as returned.
InitByte == InitWith({<<b>> : b \in Byte})

NextByte ==
    \/ Split(RandomBytes)
    \/ Reconstruct(HeldLists)
    \/ GenerateCompatibleShare(DerivableLists(HeldLists), {privateKey})
    \/ VerifyShare(Range(Pool))
    \/ Return

SpecByte == InitByte /\ [][NextByte]_vars

\* Callers of KeyManager.splitKey, with every key string and every pair of
\* totalShares and threshold.
InitManager == InitWith(KeyStrings)

NextManager ==
    \/ SplitKey
    \/ Return

SpecManager == InitManager /\ [][NextManager]_vars

\* The field operations on every byte.
InitField == InitWith({<<>>})

NextField ==
    \/ Multiply
    \/ Inverse
    \/ Pow

SpecField == InitField /\ [][NextField]_vars

\* ------------------------------------------------------------- properties

Called(op) == pc = "returned" /\ call.op = op

\* 2 or 3 different shares of the split, in any order.
DistinctSplitShares(list) ==
    /\ Len(list) >= 2
    /\ \A p \in DOMAIN list : list[p] \in Range(shares)
    /\ \A p, q \in DOMAIN list : p # q => list[p] # list[q]

\* verifyShare returns true for the share.
IntegrityValid(share) == ~verifyShareThrows(share) /\ verifyShare(share)

\* The share is a share the caller holds with its x, y or type changed and
\* its stored hash kept.
IsTampered(share) ==
    \E original \in Range(Pool) :
        /\ share.hash = original.hash
        /\ <<share.x, share.y, share.type>> # <<original.x, original.y, original.type>>

\* C1: reconstruct of any 2 of the 3 shares of split(S), in either order, and
\* of all 3, returns S, for every secret S of length >= 1 and every draw of
\* the random coefficients.
RoundTrip ==
    (Called("reconstruct") /\ Len(privateKey) >= 1 /\ DistinctSplitShares(call.shares))
        => outcome = ReturnedBytes(privateKey)

RoundTripWitness ==
    /\ Called("reconstruct")
    /\ Len(privateKey) = 2
    /\ randomBytes[1] = 200
    /\ call.shares = <<shares[3], shares[1]>>
    /\ outcome = ReturnedBytes(privateKey)

\* C2: from any two different shares of split(S), with the missing identity as
\* target and a key argument of the secret's length, generateCompatibleShare
\* returns the share split produced for that identity (type, x, y, version and
\* hash); so reconstruct of the derived share with either original, and of all
\* three, returns S.
CompatibleShareDerivation ==
    (/\ Called("generateCompatibleShare")
     /\ Len(privateKey) >= 1
     /\ Len(call.shares) = 2
     /\ DistinctSplitShares(call.shares)
     /\ call.shareType \notin {call.shares[1].type, call.shares[2].type}
     /\ Len(call.key) = Len(privateKey))
        => /\ ~outcome.threw
           /\ outcome.share \in Range(shares)
           /\ outcome.share.type = call.shareType
           /\ \A p \in 1 .. 2 :
                 /\ reconstruct(<<outcome.share, call.shares[p]>>) = ReturnedBytes(privateKey)
                 /\ reconstruct(<<call.shares[p], outcome.share>>) = ReturnedBytes(privateKey)
           /\ reconstruct(call.shares \o <<outcome.share>>) = ReturnedBytes(privateKey)

CompatibleShareDerivationWitness ==
    /\ Called("generateCompatibleShare")
    /\ Len(privateKey) = 2
    /\ randomBytes[2] = 200
    /\ call.shares = <<shares[1], shares[2]>>
    /\ call.shareType = "recoveryShare"
    /\ call.key = privateKey
    /\ outcome = ReturnedShare(shares[3])

\* C3: for a secret of length L >= 1 split returns exactly 3 shares, in the
\* order device, server, recovery, with x = 1, 2, 3, each y of length L, each
\* version 1, and each with a hash verifyShare accepts.
SplitShape ==
    (Called("split") /\ Len(privateKey) >= 1)
        => /\ ~outcome.threw
           /\ Len(outcome.shares) = 3
           /\ outcome.shares[1].type = "deviceShare"
           /\ outcome.shares[2].type = "serverShare"
           /\ outcome.shares[3].type = "recoveryShare"
           /\ \A i \in 1 .. 3 :
                 /\ outcome.shares[i].x = i
                 /\ Len(outcome.shares[i].y) = Len(privateKey)
                 /\ outcome.shares[i].version = 1
                 /\ IntegrityValid(outcome.shares[i])

SplitShapeWitness ==
    /\ Called("split")
    /\ Len(privateKey) = 2
    /\ Len(outcome.shares) = 3
    /\ outcome.shares[2].x = 2
    /\ IntegrityValid(outcome.shares[2])

\* C4: for the empty secret split returns three shares (device, server,
\* recovery, x = 1, 2, 3), each with an empty y, version 1 and a valid hash,
\* and reconstruct of any two of them returns the empty secret.
EmptySecretSplit ==
    (Called("split") /\ Len(privateKey) = 0)
        => /\ Len(outcome.shares) = 3
           /\ \A i \in 1 .. 3 :
                 /\ outcome.shares[i].x = i
                 /\ outcome.shares[i].type = shareTypes[i]
                 /\ outcome.shares[i].y = <<>>
                 /\ outcome.shares[i].version = 1
                 /\ IntegrityValid(outcome.shares[i])
           /\ \A i, j \in 1 .. 3 :
                 i # j => reconstruct(<<outcome.shares[i], outcome.shares[j]>>) = ReturnedBytes(<<>>)

\* C5: a share whose y, x or type was changed while its stored hash was kept
\* makes verifyShare return false, and makes reconstruct and
\* generateCompatibleShare fail with the tampered-share error wherever it
\* stands in the supplied list and whatever the other members are.
TamperDetection ==
    /\ (Called("verifyShare") /\ IsTampered(call.shares[1]))
          => outcome = ReturnedBoolean(FALSE)
    /\ (/\ Called("reconstruct") \/ Called("generateCompatibleShare")
        /\ Len(call.shares) >= 2
        /\ \E p \in DOMAIN call.shares : IsTampered(call.shares[p]))
          => outcome = Thrown(ErrTampered)

\* C6: verifyShare always returns a boolean and never throws: false when the
\* stored hash is absent or differs in any way from the recomputed one (a
\* different length included), true only when they are equal; so reconstruct
\* of a list with a share whose hash mismatches fails with the tampered-share
\* error.
VerifyFailsClosed ==
    /\ Called("verifyShare")
          => /\ ~outcome.threw
             /\ outcome.valid = (call.shares[1].hash = calculateShareHash(call.shares[1]))
    /\ (/\ Called("reconstruct")
        /\ Len(call.shares) >= 2
        /\ \E p \in DOMAIN call.shares :
              call.shares[p].hash # calculateShareHash(call.shares[p]))
          => outcome = Thrown(ErrTampered)

\* C7: reconstruct and generateCompatibleShare fail with the
\* incompatible-version error on every list of 2 or more integrity-valid
\* shares two of which carry different versions.
VersionGating ==
    (/\ Called("reconstruct") \/ Called("generateCompatibleShare")
     /\ Len(call.shares) >= 2
     /\ \A p \in DOMAIN call.shares : IntegrityValid(call.shares[p])
     /\ \E p, q \in DOMAIN call.shares : call.shares[p].version # call.shares[q].version)
        => outcome = Thrown(ErrVersions)

VersionGatingWitness ==
    /\ Called("generateCompatibleShare")
    /\ Len(call.shares) = 3
    /\ \A p \in DOMAIN call.shares : IntegrityValid(call.shares[p])
    /\ call.shares[1].version = 1
    /\ call.shares[3].version = 2
    /\ outcome = Thrown(ErrVersions)

\* C8: reconstruct fails with the division-by-zero error, and returns no
\* value, on every list of integrity-valid shares of one version two of which
\* have the same x, whatever their payloads.
DuplicateCoordinate ==
    (/\ Called("reconstruct")
     /\ \A p \in DOMAIN call.shares : IntegrityValid(call.shares[p])
     /\ \A p, q \in DOMAIN call.shares : call.shares[p].version = call.shares[q].version
     /\ \E p, q \in DOMAIN call.shares : p # q /\ call.shares[p].x = call.shares[q].x)
        => outcome = Thrown(ErrDivision)

\* C9: for the secret byte s and each coordinate x in 1..3, the map from the
\* random coefficient r in 0..255 to the share byte s + r*x is one-to-one and
\* onto 0..255: the byte a share holds comes from exactly one r, and over all
\* r a share takes every byte value, whatever the secret.
Hiding ==
    Called("split") =>
        \A k \in DOMAIN privateKey, i \in 1 .. 3 :
            /\ {split(privateKey, [randomBytes EXCEPT ![k] = r])[i].y[k] : r \in Byte} = Byte
            /\ \A r \in Byte :
                  split(privateKey, [randomBytes EXCEPT ![k] = r])[i].y[k]
                        = outcome.shares[i].y[k]
                     => r = randomBytes[k]

HidingWitness ==
    /\ Called("split")
    /\ privateKey = <<255>>
    /\ randomBytes = <<200>>
    /\ Len(outcome.shares) = 3
    /\ outcome.shares[3].y # privateKey

\* C10: generateCompatibleShare fails with the ambiguous-target error, and
\* returns no share, when the supplied shares already hold all three
\* identities.
AmbiguousTarget ==
    (/\ Called("generateCompatibleShare")
     /\ {"deviceShare", "serverShare", "recoveryShare"}
            \subseteq {call.shares[p].type : p \in DOMAIN call.shares})
        => outcome.threw /\ outcome.error = ErrAmbiguousTarget

\* C11: KeyManager.splitKey fails, producing no shares, when threshold < 2 or
\* totalShares < threshold; for every other (totalShares, threshold) and a
\* non-empty key it returns exactly 3 shares at x = 1, 2, 3, the shares the
\* engine makes of the key's bytes whatever totalShares and threshold are.
SplitKeyValidation ==
    Called("splitKey") =>
        /\ (call.threshold < 2 \/ call.totalShares < call.threshold)
              => outcome.threw /\ outcome.shares = <<>>
        /\ (/\ ~(call.threshold < 2)
            /\ ~(call.totalShares < call.threshold)
            /\ call.key # <<>>)
              => /\ ~outcome.threw
                 /\ Len(outcome.shares) = 3
                 /\ \A i \in 1 .. 3 : outcome.shares[i].x = i
                 /\ \A i \in 1 .. 3 :
                       outcome.shares[i] =
                          [split(TextEncode(call.key), randomBytes)[i] EXCEPT !.y = ToHex(@)]

SplitKeyValidationWitness ==
    /\ Called("splitKey")
    /\ call.key = <<233, 65>>
    /\ call.totalShares = 5
    /\ call.threshold = 3
    /\ Len(outcome.shares) = 3
    /\ outcome.shares[3].x = 3
    /\ Len(outcome.shares[3].y) = 6

\* The polynomial the source comment gives for PRIMITIVE_POLY:
\* x^8 + x^4 + x^3 + x + 1.
StatedPolynomial == 283

\* The product of a and b as polynomials over GF(2), not reduced.
RECURSIVE PolynomialProduct(_, _)
PolynomialProduct(a, b) ==
    IF b = 0 THEN 0
    ELSE Xor(IF b % 2 = 1 THEN a ELSE 0, 2 * PolynomialProduct(a, b \div 2))

\* The remainder of p modulo the polynomial of degree 8, clearing the bits of
\* p from bit down to 8.
RECURSIVE PolynomialRemainder(_, _, _)
PolynomialRemainder(p, polynomial, bit) ==
    IF bit < 8 THEN p
    ELSE PolynomialRemainder(
            IF BitSet(p, bit) THEN Xor(p, polynomial * ShiftOne(bit - 8)) ELSE p,
            polynomial, bit - 1)

FieldProduct(a, b, polynomial) ==
    PolynomialRemainder(PolynomialProduct(a, b), polynomial, 14)

\* C12: for all bytes a, b, multiply(a, b) is the product of a and
\* b as polynomials over GF(2) modulo x^8 + x^4 + x^3 + x + 1.
MultiplyModuloStatedPolynomial ==
    Called("multiply") =>
        outcome = ReturnedBytes(<<FieldProduct(call.operands[1], call.operands[2],
                                               StatedPolynomial)>>)

\* C13: inverse(0) fails with the division-by-zero error; for every a in
\* 1..255 inverse(a) is a byte b in 1..255 with multiply(a, b) = 1 and
\* inverse(inverse(a)) = a.
InverseLaw ==
    Called("inverse") =>
        LET a == call.operands[1]
        IN  /\ a = 0 => outcome = Thrown(ErrDivision)
            /\ a # 0 =>
                  /\ ~outcome.threw
                  /\ Len(outcome.bytes) = 1
                  /\ outcome.bytes[1] \in 1 .. 255
                  /\ multiply(a, outcome.bytes[1]) = 1
                  /\ ~inverseThrows(outcome.bytes[1])
                  /\ inverse(outcome.bytes[1]) = a

InverseLawWitness ==
    /\ Called("inverse")
    /\ call.operands = <<2>>
    /\ outcome = ReturnedBytes(<<142>>)
    /\ multiply(2, 142) = 1

\* base multiplied by itself with multiply: the product of e factors base.
RECURSIVE RepeatedProduct(_, _, _)
RepeatedProduct(base, e, product) ==
    IF e = 1 \/ product \notin Byte THEN product
    ELSE RepeatedProduct(base, e - 1, multiply(product, base))

\* C14: for every base in 0..255 and exponent e >= 0, pow(base, e) is 1 when
\* e = 0 (base 0 included), 0 when base = 0 and e # 0, and otherwise
\* exp[(log[base] * e) mod 255], which is base multiplied by itself e times.
PowLaw ==
    Called("pow") =>
        LET base == call.operands[1]
            e == call.operands[2]
        IN  /\ ~outcome.threw
            /\ e = 0 => outcome.bytes = <<1>>
            /\ (base = 0 /\ e # 0) => outcome.bytes = <<0>>
            /\ (base # 0 /\ e # 0) =>
                  /\ outcome.bytes = <<EXP_TABLE[(LOG_TABLE[base] * e) % 255]>>
                  /\ outcome.bytes = <<RepeatedProduct(base, e, base)>>

\* The error each operation reports for too few shares.
InsufficientError(op) == IF op = "reconstruct" THEN ErrNeedShares ELSE ErrNeedExisting

\* C15: reconstruct and generateCompatibleShare check (a) at least 2 shares,
\* (b) every share's integrity hash verifies, (c) all versions equal, in this
\* order, and report the error of the first check that fails; the
\* division-by-zero error is reported only when (a), (b) and (c) hold; and a
\* failed call returns no bytes and no share.
PreconditionOrder ==
    (Called("reconstruct") \/ Called("generateCompatibleShare")) =>
        LET list == call.shares
            insufficient == Len(list) < 2
            invalid == \E p \in DOMAIN list : ~IntegrityValid(list[p])
            mixed == \E p, q \in DOMAIN list : list[p].version # list[q].version
        IN  /\ insufficient => outcome = Thrown(InsufficientError(call.op))
            /\ (~insufficient /\ invalid) => outcome = Thrown(ErrTampered)
            /\ (~insufficient /\ ~invalid /\ mixed) => outcome = Thrown(ErrVersions)
            /\ (outcome.threw /\ outcome.error = ErrDivision)
                  => (~insufficient /\ ~invalid /\ ~mixed)
            /\ outcome.threw => (outcome.bytes = <<>> /\ outcome.share = NoShare)

\* C16: reconstruct fails, returning no secret, on every list of
\* integrity-valid shares of one version and different x whose payloads do not
\* all have the same length.
PayloadLengthGuard ==
    (/\ Called("reconstruct")
     /\ Len(call.shares) >= 2
     /\ \A p \in DOMAIN call.shares : IntegrityValid(call.shares[p])
     /\ \A p, q \in DOMAIN call.shares : call.shares[p].version = call.shares[q].version
     /\ \A p, q \in DOMAIN call.shares : p # q => call.shares[p].x # call.shares[q].x
     /\ \E p, q \in DOMAIN call.shares : Len(call.shares[p].y) # Len(call.shares[q].y))
        => outcome.threw /\ outcome.bytes = <<>>

\* Every share of the list with its version raised by one.
Reversioned(list) == [p \in DOMAIN list |-> [list[p] EXCEPT !.version = @ + 1]]

\* What verifyShare returns or throws.
VerifyOutcome(share) ==
    IF verifyShareThrows(share) THEN Thrown(ErrRange)
    ELSE ReturnedBoolean(verifyShare(share))

\* C17: the hash does not cover version: verifyShare gives the same result for
\* a share and for the same share with another version; and a list of
\* integrity-valid shares of one version, with every version changed to the
\* same other value, gets from reconstruct the same bytes, and from
\* generateCompatibleShare the same share carrying the changed version.
VersionNotCovered ==
    /\ Called("verifyShare")
          => outcome = VerifyOutcome([call.shares[1] EXCEPT !.version = @ + 1])
    /\ (/\ Called("reconstruct") \/ Called("generateCompatibleShare")
        /\ Len(call.shares) >= 2
        /\ \A p \in DOMAIN call.shares : IntegrityValid(call.shares[p])
        /\ \A p, q \in DOMAIN call.shares : call.shares[p].version = call.shares[q].version)
          => /\ \A p \in DOMAIN call.shares : IntegrityValid(Reversioned(call.shares)[p])
             /\ Called("reconstruct")
                   => reconstruct(Reversioned(call.shares)) = outcome
             /\ Called("generateCompatibleShare")
                   => LET other == generateCompatibleShare(call.key, Reversioned(call.shares),
                                                           call.shareType)
                      IN  /\ other.threw = outcome.threw
                          /\ other.error = outcome.error
                          /\ ~outcome.threw =>
                                /\ other.share = [outcome.share EXCEPT !.version = @ + 1]
                                /\ outcome.share.version = call.shares[1].version

VersionNotCoveredWitness ==
    /\ Called("generateCompatibleShare")
    /\ Len(call.shares) = 2
    /\ call.shares[1].version = 2
    /\ call.shares[2].version = 2
    /\ call.shares[1].hash = shares[1].hash
    /\ ~outcome.threw
    /\ outcome.share.version = 2
    /\ outcome.share.y = shares[3].y
    /\ reconstruct(call.shares) = ReturnedBytes(privateKey)

====
